---- MODULE Spec2Model ----
(***************************************************************************)
(* Verification model of the video clip tool (React controller `App`, the  *)
(* IndexedDB-backed `VideoStorageService`, and its thumbnail sampler).     *)
(*                                                                         *)
(* Sources:                                                                *)
(*   src/unnamed/part_000      the controller that uses the video store    *)
(*   src/frontend/src/App.tsx  lines 1-506: the controller variant without *)
(*                             a store; lines 508-635: VideoStorageService *)
(*                                                                         *)
(* The module holds four specifications over one set of variables:         *)
(*   SpecRange    the timeline handlers (drag, click) on the clip range    *)
(*   SpecThumb    one call of VideoStorageService.generateThumbnails       *)
(*   SpecService  VideoStorageService driven by an arbitrary caller        *)
(*   Spec         the controller of part_000 together with the service     *)
(* Each specification leaves the variables of the others unchanged.        *)
(*                                                                         *)
(* Time on the media timeline is a float in the source; it is modelled in  *)
(* ticks, TicksPerSec ticks to the second, so that sub-second positions    *)
(* exist.                                                                  *)
(***************************************************************************)
EXTENDS Integers, Sequences, FiniteSets, TLC

\* ---------------------------------------------------------------- bounds
\* Resolution of the media timeline: ticks per second.
TicksPerSec == 2
\* Longest video of the timeline specification, in seconds.
MaxDurSec == 11
\* Largest numThumbnails a generateThumbnails call is given.
MaxCount == 3
\* Longest video (ticks) a generateThumbnails call is given.
MaxThumbDur == 2
\* How far Date.now() advances, in steps of one day.
MaxNowSteps == 2

\* ------------------------------------------------------ program constants
\* useState(0) for startTime, useState(10) for endTime (seconds).
DefaultStartSec == 0
DefaultEndSec == 10
\* The minimum span written as the literal 1 in `endTime - 1`, `startTime + 1`.
MinSpanSec == 1
\* setTimeout(..., 5000) per seek and setTimeout(..., 30000) for the whole call.
SeekTimeoutMs == 5000
GenTimeoutMs == 30000
\* generateThumbnails(videoBlob, numThumbnails = 20)
DefaultNumThumbnails == 20

Sec(n) == n * TicksPerSec

MathMax(a, b) == IF a >= b THEN a ELSE b
MathMin(a, b) == IF a <= b THEN a ELSE b
MathAbs(a) == IF a >= 0 THEN a ELSE 0 - a

\* JavaScript null / undefined and the empty string of previewUrl.
Null == [tag |-> "null"]
NoPreview == ""
Undefined == [tag |-> "undefined"]

VARIABLES
    \* ---- controller state (useState / useRef of App)
    videoInfo,      \* Null or [title, duration, formats]
    previewUrl,     \* "" or an object URL; the <video> element is rendered iff non-empty
    startTime,      \* ticks
    endTime,        \* ticks
    isDragging,     \* "start" | "end" | "null"
    \* ---- the <video> element behind videoRef
    currentTime,    \* videoRef.current.currentTime (ticks); 0 while no element exists
    videoLoaded,    \* the element has fired loadeddata
    \* ---- one call of generateThumbnails(videoBlob, numThumbnails)
    numThumbnails,  \* the argument
    vDuration,      \* video.duration of the off-screen element (ticks)
    vCurrentTime,   \* video.currentTime of the off-screen element, a fraction <<num, den>> of ticks
    vSeeking,       \* a seek is in progress in the element
    vErrored,       \* the element has fired error
    gtPc,           \* where the async onloadedmetadata handler stands
    gtI,            \* the loop variable i
    gtThumbnails,   \* the local array `thumbnails`: one captured frame per entry
    gtPromise,      \* the returned promise: [state, value]
    gtObjectUrl,    \* the object URL of video.src: "live" | "revoked"
    gtGenTimer,     \* the 30 s timer: "pending" | "fired" | "cleared"
    gtSeekTimer,    \* the 5 s timer of the current seek: [state, due]
    clock,          \* milliseconds since the call
    \* ---- VideoStorageService and its IndexedDB database
    db,             \* this.db: "null" | "open"
    openCalls,      \* how many times initialize() called openDB
    videos,         \* object store 'videos': the records in key (url) order
    now,            \* Date.now(), milliseconds
    lastStored,     \* history: per url, the record of the last storeVideo not followed by a deleteVideo
    overwrote,      \* history: the last storeVideo replaced a different record under its key
    txq,            \* the transactions requested and not yet complete, oldest first (by process)
    \* ---- asynchronous activities (each handler instance is a process)
    pc,             \* per process: the await it is suspended at, or "idle" ("done" for the mount effect)
    svc,            \* per process awaiting a service method: "init" (in initialize) | "txn" | "none"
    loc,            \* per process: its local variables and closure
    sweepLog,       \* history: what the last cleanup() found, while no other store operation ran since it began
    \* ---- controller state, continued
    url,
    loading,
    error,
    selectedFormat,
    thumbnails,
    storedVideos,
    acceptedDisclaimer

ctlVars == <<videoInfo, previewUrl>>
timelineVars == <<startTime, endTime, isDragging, currentTime, videoLoaded>>
rangeVars == <<ctlVars, timelineVars>>
thumbVars == <<numThumbnails, vDuration, vCurrentTime, vSeeking, vErrored, gtPc, gtI,
               gtThumbnails, gtPromise, gtObjectUrl, gtGenTimer, gtSeekTimer, clock>>

storeVars == <<db, openCalls, videos, now, lastStored, overwrote, txq>>
procVars == <<pc, svc, loc, sweepLog>>
appVars == <<url, loading, error, selectedFormat, thumbnails, storedVideos>>

clipVars == <<acceptedDisclaimer>>

vars == <<rangeVars, thumbVars, storeVars, procVars, appVars, clipVars>>

\* What the actions of one specification leave alone: the other specifications' variables.
RangeFrame == UNCHANGED <<thumbVars, storeVars, procVars, appVars, clipVars>>
ThumbFrame == UNCHANGED <<rangeVars, storeVars, procVars, appVars, clipVars>>
ServiceFrame == UNCHANGED <<rangeVars, thumbVars, appVars, clipVars>>
AppFrame == UNCHANGED <<startTime, endTime, isDragging, thumbVars, clipVars>>

\* ======================================================================
\* Timeline handlers (identical in part_000 and in App.tsx)
\* ======================================================================

\* videoRef.current: the <video> is rendered only under `previewUrl ? (...)`.
VideoRefCurrent == previewUrl # NoPreview

\* timelineRef.current: the timeline <div> is rendered only under `videoInfo && (...)`.
TimelineRefCurrent == videoInfo # Null

\* Durations (ticks) of the videos the timeline specification loads: one shorter
\* than the default range, and the two longest.
Durations == {Sec(1) + 1, Sec(MaxDurSec) - 1, Sec(MaxDurSec)}

\* Math.max(0, Math.min(time, endTime - 1))
NewStart(time, endT) == MathMax(0, MathMin(time, endT - Sec(MinSpanSec)))

\* Math.min(videoInfo.duration, Math.max(time, startTime + 1))
NewEnd_noSpan(time, startT, duration) == MathMin(duration, MathMax(time, startT))
NewEnd(time, startT, duration) == MathMin(duration, MathMax(time, startT + Sec(MinSpanSec)))

\* Assigning currentTime seeks; a position past the end of the media is
\* clamped to the end by the element.
Seek(t) == MathMax(0, MathMin(t, IF videoInfo = Null THEN t ELSE videoInfo.duration))

handleMouseDown(type) ==
    /\ TimelineRefCurrent              \* the handles are children of the timeline
    /\ isDragging' = type
    /\ UNCHANGED <<videoInfo, previewUrl, startTime, endTime, currentTime, videoLoaded>>
    /\ RangeFrame

handleMouseUp ==
    /\ isDragging' = "null"
    /\ UNCHANGED <<videoInfo, previewUrl, startTime, endTime, currentTime, videoLoaded>>
    /\ RangeFrame

\* `time` is percentage * duration with the pointer clamped into the timeline.
handleMouseMove(time) ==
    /\ isDragging # "null"
    /\ TimelineRefCurrent
    /\ time \in 0..videoInfo.duration
    /\ IF isDragging = "start"
       THEN /\ startTime' = NewStart(time, endTime)
            /\ endTime' = endTime
            /\ currentTime' = IF VideoRefCurrent THEN Seek(startTime') ELSE currentTime
       ELSE /\ endTime' = NewEnd(time, startTime, videoInfo.duration)
            /\ startTime' = startTime
            /\ currentTime' = IF VideoRefCurrent THEN Seek(endTime') ELSE currentTime
    /\ UNCHANGED <<videoInfo, previewUrl, isDragging, videoLoaded>>
    /\ RangeFrame

handleTimelineClick(time) ==
    /\ TimelineRefCurrent
    /\ VideoRefCurrent
    /\ time \in 0..videoInfo.duration      \* if (time >= 0 && time <= duration)
    /\ IF MathAbs(time - startTime) < MathAbs(time - endTime)
       THEN /\ startTime' = NewStart(time, endTime)
            /\ endTime' = endTime
       ELSE /\ endTime' = NewEnd(time, startTime, videoInfo.duration)
            /\ startTime' = startTime
    /\ currentTime' = Seek(time)
    /\ UNCHANGED <<videoInfo, previewUrl, isDragging, videoLoaded>>
    /\ RangeFrame

\* <video onLoadedData>: videoRef.current.currentTime = startTime
onLoadedData ==
    /\ VideoRefCurrent
    /\ ~videoLoaded
    /\ videoLoaded' = TRUE
    /\ currentTime' = Seek(startTime)
    /\ UNCHANGED <<videoInfo, previewUrl, startTime, endTime, isDragging>>
    /\ RangeFrame

\* <video onError>: setPreviewUrl('') unmounts the element.
onVideoError ==
    /\ VideoRefCurrent
    /\ ~videoLoaded
    /\ previewUrl' = NoPreview
    /\ currentTime' = 0
    /\ UNCHANGED <<videoInfo, startTime, endTime, isDragging, videoLoaded>>
    /\ RangeFrame

\* ----------------------------------------------------------------------
\* What handleGetFormats / handleUseStoredVideo do to the timeline state.
\* Neither handler assigns startTime or endTime in part_000.
\* ----------------------------------------------------------------------

\* setVideoInfo(null); setPreviewUrl('') at the start of the handler.
RangeResetVideo ==
    /\ videoInfo' = Null
    /\ previewUrl' = NoPreview
    /\ currentTime' = 0
    /\ videoLoaded' = FALSE
    /\ UNCHANGED <<startTime, endTime, isDragging>>
    /\ RangeFrame

\* setVideoInfo({title, duration, formats}) once the record or the formats
\* response is there.
RangeSetVideoInfo(d) ==
    /\ videoInfo = Null
    /\ videoInfo' = [title |-> "t", duration |-> d, formats |-> <<>>]
    /\ UNCHANGED <<previewUrl, startTime, endTime, isDragging, currentTime, videoLoaded>>
    /\ RangeFrame

\* setPreviewUrl(URL.createObjectURL(blob)): the <video> element mounts.
RangeSetPreviewUrl ==
    /\ videoInfo # Null
    /\ previewUrl = NoPreview
    /\ previewUrl' = "blob:preview"
    /\ currentTime' = 0
    /\ videoLoaded' = FALSE
    /\ UNCHANGED <<videoInfo, startTime, endTime, isDragging>>
    /\ RangeFrame

\* ======================================================================
\* VideoStorageService.generateThumbnails (App.tsx 569-632), one call.
\*
\* The call creates an off-screen <video>, points it at an object URL of the
\* blob and returns a promise.  What happens next is driven by the element's
\* events (loadedmetadata, loadeddata, seeked, error) and by two timers.
\* Time advances in steps of the seek timeout; a timer that is due fires
\* before time advances further, and an event of the element that falls on
\* the same instant may come before or after it.
\* ======================================================================

\* (duration * i) / numThumbnails, kept as an exact fraction <<numerator, denominator>>.
SampleTime_rightEdge(duration, i, n) == <<duration * (i + 1), n>>
SampleTime(duration, i, n) == <<duration * i, n>>

\* ctx.drawImage(video, ...); canvas.toDataURL('image/jpeg', 0.7): the encoded
\* frame is the picture at the element's current position.
CaptureFrame == [frameAt |-> vCurrentTime]

PendingPromise == [state |-> "pending", value |-> <<>>, error |-> "", at |-> 0]

\* resolve(value) / reject(error) of the returned promise; only the first call
\* settles it.  `at` records when.
Resolve(value) ==
    gtPromise' = IF gtPromise.state = "pending"
                 THEN [state |-> "resolved", value |-> value, error |-> "", at |-> clock]
                 ELSE gtPromise

Reject(err) ==
    gtPromise' = IF gtPromise.state = "pending"
                 THEN [state |-> "rejected", value |-> <<>>, error |-> err, at |-> clock]
                 ELSE gtPromise

\* catch (err) { URL.revokeObjectURL(video.src); reject(err); }
CatchBlock_noRevoke(err) ==
    /\ gtObjectUrl' = gtObjectUrl
    /\ Reject(err)
CatchBlock_partial(err) ==
    /\ gtObjectUrl' = "revoked"
    /\ Resolve(gtThumbnails)
CatchBlock(err) ==
    /\ gtObjectUrl' = "revoked"
    /\ Reject(err)

\* video.currentTime = time; then the seek promise: setTimeout(reject, 5000) and
\* video.onseeked = capture.
StartSeek(i) ==
    /\ gtI' = i
    /\ vCurrentTime' = SampleTime(vDuration, i, numThumbnails)
    /\ vSeeking' = TRUE
    /\ gtSeekTimer' = [state |-> "pending", due |-> clock + SeekTimeoutMs]
    /\ gtPc' = "seeked"

\* The element fires loadedmetadata: the async handler starts, reads
\* video.duration, sizes the canvas, replaces video.onerror and awaits loadeddata.
onloadedmetadata ==
    /\ gtPc = "start"
    /\ ~vErrored
    /\ gtPc' = "loadeddata"
    /\ UNCHANGED <<numThumbnails, vDuration, vCurrentTime, vSeeking, vErrored, gtI,
                   gtThumbnails, gtPromise, gtObjectUrl, gtGenTimer, gtSeekTimer, clock>>
    /\ ThumbFrame

\* The element fires loadeddata: the handler enters the loop and starts seek 0;
\* with numThumbnails = 0 the loop is skipped and the call resolves at once.
onloadeddata ==
    /\ gtPc = "loadeddata"
    /\ ~vErrored
    /\ IF 0 < numThumbnails
       THEN /\ StartSeek(0)
            /\ UNCHANGED <<gtPromise, gtObjectUrl>>
       ELSE /\ gtObjectUrl' = "revoked"
            /\ Resolve(gtThumbnails)
            /\ gtPc' = "done"
            /\ UNCHANGED <<gtI, vCurrentTime, vSeeking, gtSeekTimer>>
    /\ UNCHANGED <<numThumbnails, vDuration, vErrored, gtThumbnails, gtGenTimer, clock>>
    /\ ThumbFrame

\* clearTimeout(timeoutId) of the seek that video.onseeked belongs to.
ClearedSeekTimer ==
    IF gtSeekTimer.state = "pending" THEN [gtSeekTimer EXCEPT !.state = "cleared"]
    ELSE gtSeekTimer

\* The pending seek completes and video.onseeked runs: it captures the frame,
\* clears the seek timer and resolves the seek promise.  If the handler still
\* awaits that promise the loop goes on: next seek, or revoke and resolve.
\* After a seek timeout the handler has left, but video.onseeked is still set.
onseeked ==
    /\ vSeeking
    /\ ~vErrored
    /\ gtThumbnails' = Append(gtThumbnails, CaptureFrame)
    /\ IF gtPc = "seeked" /\ gtI + 1 < numThumbnails
       THEN /\ StartSeek(gtI + 1)
            /\ UNCHANGED <<gtPromise, gtObjectUrl>>
       ELSE /\ vSeeking' = FALSE
            /\ gtSeekTimer' = ClearedSeekTimer
            /\ UNCHANGED <<gtI, vCurrentTime>>
            /\ IF gtPc = "seeked"
               THEN /\ gtObjectUrl' = "revoked"
                    /\ Resolve(gtThumbnails')
                    /\ gtPc' = "done"
               ELSE UNCHANGED <<gtPromise, gtObjectUrl, gtPc>>
    /\ UNCHANGED <<numThumbnails, vDuration, vErrored, gtGenTimer, clock>>
    /\ ThumbFrame

\* The element fires error.  Before loadedmetadata the handler set in the
\* promise executor runs (revoke, reject).  While the async handler awaits
\* loadeddata its own video.onerror rejects that wait and the catch block runs.
\* Later the error finds only the settled loadeddata promise: nothing happens,
\* and the seek in progress never completes.
onerror ==
    /\ ~vErrored
    /\ gtPc # "done" \/ vSeeking
    /\ vErrored' = TRUE
    /\ IF gtPc = "start"
       THEN /\ gtObjectUrl' = "revoked"
            /\ Reject("Failed to load video")
            /\ UNCHANGED gtPc
       ELSE IF gtPc = "loadeddata"
            THEN /\ CatchBlock("Failed to load video data")
                 /\ gtPc' = "done"
            ELSE UNCHANGED <<gtPromise, gtObjectUrl, gtPc>>
    /\ UNCHANGED <<numThumbnails, vDuration, vCurrentTime, vSeeking, gtI,
                   gtThumbnails, gtGenTimer, gtSeekTimer, clock>>
    /\ ThumbFrame

\* The 5 s timer of the current seek fires: reject(new Error('Seek timeout'))
\* throws in the async handler, whose catch block runs.
onSeekTimeout ==
    /\ gtSeekTimer.state = "pending"
    /\ gtSeekTimer.due <= clock
    /\ gtSeekTimer' = [gtSeekTimer EXCEPT !.state = "fired"]
    /\ CatchBlock("Seek timeout")
    /\ gtPc' = "done"
    /\ UNCHANGED <<numThumbnails, vDuration, vCurrentTime, vSeeking, vErrored, gtI,
                   gtThumbnails, gtGenTimer, clock>>
    /\ ThumbFrame

\* The 30 s timer fires: revoke, reject.  The async handler is not told.
onGenTimeout ==
    /\ gtGenTimer = "pending"
    /\ GenTimeoutMs <= clock
    /\ gtGenTimer' = "fired"
    /\ gtObjectUrl' = "revoked"
    /\ Reject("Thumbnail generation timed out")
    /\ UNCHANGED <<numThumbnails, vDuration, vCurrentTime, vSeeking, vErrored, gtPc, gtI,
                   gtThumbnails, gtSeekTimer, clock>>
    /\ ThumbFrame

TimerDue ==
    \/ gtGenTimer = "pending" /\ GenTimeoutMs <= clock
    \/ gtSeekTimer.state = "pending" /\ gtSeekTimer.due <= clock

\* Time passes while something of the call is still outstanding.
MaxClock == GenTimeoutMs + SeekTimeoutMs
Tick ==
    /\ ~TimerDue
    /\ clock < MaxClock
    /\ gtPc # "done" \/ vSeeking \/ gtGenTimer = "pending"
    /\ clock' = clock + SeekTimeoutMs
    /\ UNCHANGED <<numThumbnails, vDuration, vCurrentTime, vSeeking, vErrored, gtPc, gtI,
                   gtThumbnails, gtPromise, gtObjectUrl, gtGenTimer, gtSeekTimer>>
    /\ ThumbFrame

\* ======================================================================
\* VideoStorageService: the IndexedDB store (App.tsx 519-567)
\*
\* The object store 'videos' has keyPath 'url'; IndexedDB keeps its records in
\* key order and runs each put / get / getAll / delete as one transaction.
\* Every method first does `if (!this.db) await this.initialize()`, so a call
\* made while this.db is null waits for its own openDB before its transaction.
\* Transactions on one object store complete in the order they were requested.
\* ======================================================================

Urls == {"u1", "u2"}
\* The key order of the urls.
UrlOrder == <<"u1", "u2">>
UrlRank(u) == CHOOSE i \in 1..Len(UrlOrder) : UrlOrder[i] = u

\* const dayInMs = 24 * 60 * 60 * 1000
dayInMs == 24 * 60 * 60 * 1000
\* Date.now() advances in steps of one day.
NowStep == dayInMs

RECURSIVE DbWithout(_, _)
DbWithout(store, key) ==
    IF store = <<>> THEN <<>>
    ELSE IF Head(store).url = key THEN DbWithout(Tail(store), key)
         ELSE <<Head(store)>> \o DbWithout(Tail(store), key)

RECURSIVE DbInsert(_, _)
DbInsert(store, video) ==
    IF store = <<>> THEN <<video>>
    ELSE IF UrlRank(video.url) < UrlRank(Head(store).url) THEN <<video>> \o store
         ELSE <<Head(store)>> \o DbInsert(Tail(store), video)

\* db.put('videos', video): the record under video.url is replaced.
DbPut_keepOld(store, video) == DbInsert(store, video)
DbPut(store, video) == DbInsert(DbWithout(store, video.url), video)

\* db.get('videos', url): the record, or undefined.
RECURSIVE DbGet(_, _)
DbGet(store, key) ==
    IF store = <<>> THEN Undefined
    ELSE IF Head(store).url = key THEN Head(store)
         ELSE DbGet(Tail(store), key)

\* db.getAll('videos')
DbGetAll(store) == store

\* db.delete('videos', url): the record under url, if any, is removed.
DbDelete_first(store, key) == IF store = <<>> THEN <<>> ELSE Tail(store)
DbDelete(store, key) == DbWithout(store, key)

\* The asynchronous activities: an arbitrary caller of the service, the
\* cleanup() of the interval, the mount effect, handleGetFormats, handleDeleteVideo,
\* handleDownload, handleUseStoredVideo.
Procs == {"client", "sweep", "mount", "submit", "delete", "download", "use"}
\* The locals of an activity that is not running.
NoLocals == [none |-> TRUE]

\* if (!this.db) await this.initialize(): process p enters a service method.
CallService(p) ==
    /\ svc' = [svc EXCEPT ![p] = IF db = "null" THEN "init" ELSE "txn"]
    /\ openCalls' = IF db = "null" THEN openCalls + 1 ELSE openCalls
    /\ txq' = IF db = "null" THEN txq ELSE Append(txq, p)

\* The transaction of process p is the oldest one: it completes next.
TxnTurn(p) == svc[p] = "txn" /\ txq # <<>> /\ Head(txq) = p

\* Process p's transaction completes and p awaits nothing of the service / and
\* p at once requests its next transaction (this.db is set by now).
TxnDone(p) == svc' = [svc EXCEPT ![p] = "none"] /\ txq' = Tail(txq)
TxnThenTxn(p) == svc' = svc /\ txq' = Append(Tail(txq), p)

\* this.db = await openDB(...): the open that process p started completes.
initialize(p) ==
    /\ svc[p] = "init"
    /\ db' = "open"
    /\ svc' = [svc EXCEPT ![p] = "txn"]
    /\ txq' = Append(txq, p)
    /\ UNCHANGED <<openCalls, videos, now, lastStored, overwrote, pc, loc, sweepLog>>
    /\ ServiceFrame

\* Bookkeeping of the history variables: a storeVideo, a deleteVideo, and any
\* store operation of a process other than the sweep.
NoteStore(video) ==
    /\ lastStored' = [lastStored EXCEPT ![video.url] = video]
    /\ overwrote' = (lastStored[video.url] # Undefined /\ lastStored[video.url] # video)
NoteDelete(key) ==
    /\ lastStored' = [lastStored EXCEPT ![key] = Undefined]
    /\ overwrote' = overwrote
NoteOther == sweepLog' = [state |-> "none"]

\* ---------------------------------------------------------------- cleanup()

\* now - video.timestamp > dayInMs
Expired_ge(video, n) == n - video.timestamp >= dayInMs
Expired(video, n) == n - video.timestamp > dayInMs

\* The for loop runs without suspending up to the next expired record:
\* the least index >= from of an expired record, or Len + 1.
RECURSIVE NextExpired(_, _, _)
NextExpired(vs, from, n) ==
    IF from > Len(vs) THEN from
    ELSE IF Expired(vs[from], n) THEN from
         ELSE NextExpired(vs, from + 1, n)

\* setInterval fires: cleanup() is called and awaits getAllVideos().
cleanup ==
    /\ pc["sweep"] = "idle"
    /\ pc' = [pc EXCEPT !["sweep"] = "getAll"]
    /\ CallService("sweep")
    /\ loc' = [loc EXCEPT !["sweep"] = [videos |-> <<>>, now |-> 0, k |-> 0]]
    /\ sweepLog' = [state |-> "begun"]
    /\ UNCHANGED <<db, videos, now, lastStored, overwrote>>
    /\ ServiceFrame

\* getAllVideos() returns: videos = the snapshot, now = Date.now(); the loop
\* runs to the first expired record and awaits its deleteVideo, or ends.
cleanupGotAll ==
    /\ pc["sweep"] = "getAll"
    /\ TxnTurn("sweep")
    /\ LET vs == DbGetAll(videos)
           k == NextExpired(vs, 1, now)
       IN /\ loc' = [loc EXCEPT !["sweep"] =
                         IF k > Len(vs) THEN NoLocals ELSE [videos |-> vs, now |-> now, k |-> k]]
          /\ sweepLog' = IF sweepLog.state = "begun"
                         THEN [state |-> "found", videos |-> vs, now |-> now]
                         ELSE sweepLog
          /\ pc' = [pc EXCEPT !["sweep"] = IF k > Len(vs) THEN "idle" ELSE "delete"]
          /\ IF k > Len(vs) THEN TxnDone("sweep") ELSE TxnThenTxn("sweep")
    /\ UNCHANGED <<db, openCalls, videos, now, lastStored, overwrote>>
    /\ ServiceFrame

\* await this.deleteVideo(video.url) for the expired record of the snapshot
\* completes; the loop runs on to the next expired record, or ends.
cleanupDeleted ==
    /\ pc["sweep"] = "delete"
    /\ TxnTurn("sweep")
    /\ LET l == loc["sweep"]
           key == l.videos[l.k].url
           k == NextExpired(l.videos, l.k + 1, l.now)
       IN /\ videos' = DbDelete(videos, key)
          /\ NoteDelete(key)
          /\ loc' = [loc EXCEPT !["sweep"] =
                         IF k > Len(l.videos) THEN NoLocals ELSE [l EXCEPT !.k = k]]
          /\ pc' = [pc EXCEPT !["sweep"] = IF k > Len(l.videos) THEN "idle" ELSE "delete"]
          /\ IF k > Len(l.videos) THEN TxnDone("sweep") ELSE TxnThenTxn("sweep")
    /\ UNCHANGED <<db, openCalls, now, sweepLog>>
    /\ ServiceFrame

\* ------------------------------------------------- an arbitrary caller

\* What the remote service holds for a url, and the blob /download returns.
TitleOf(u) == IF u = "u1" THEN "title one" ELSE "title two"
DurationOf(u) == IF u = "u1" THEN 1 ELSE 2
Blob(u, format_id) == [of |-> u, format |-> format_id]

\* What a resolved generateThumbnails(blob) holds: see SpecThumb.
ThumbnailsOf(duration, n) == [k \in 1..n |-> [frameAt |-> SampleTime(duration, k - 1, n)]]

\* The records the caller passes to storeVideo: complete records stamped Date.now().
VideoInputs ==
    { [url |-> u, title |-> TitleOf(u), blob |-> Blob(u, "b"), timestamp |-> now,
       duration |-> DurationOf(u), thumbnails |-> ThumbnailsOf(DurationOf(u), DefaultNumThumbnails)]
      : u \in Urls }

\* The caller invokes a method of the service.
ClientCall(op, arg) ==
    /\ pc["client"] = "idle"
    /\ pc' = [pc EXCEPT !["client"] = "call"]
    /\ loc' = [loc EXCEPT !["client"] = [op |-> op, arg |-> arg, ret |-> Undefined]]
    /\ CallService("client")
    /\ UNCHANGED <<db, videos, now, lastStored, overwrote, sweepLog>>
    /\ ServiceFrame

ClientReturns(op) ==
    /\ pc["client"] = "call"
    /\ TxnTurn("client")
    /\ loc["client"].op = op
    /\ pc' = [pc EXCEPT !["client"] = "idle"]
    /\ TxnDone("client")
    /\ NoteOther
    /\ UNCHANGED <<db, openCalls, now>>
    /\ ServiceFrame

storeVideo ==
    /\ ClientReturns("storeVideo")
    /\ videos' = DbPut(videos, loc["client"].arg)
    /\ NoteStore(loc["client"].arg)
    /\ loc' = [loc EXCEPT !["client"].ret = Undefined]

getVideo ==
    /\ ClientReturns("getVideo")
    /\ loc' = [loc EXCEPT !["client"].ret = DbGet(videos, loc["client"].arg)]
    /\ UNCHANGED <<videos, lastStored, overwrote>>

getAllVideos ==
    /\ ClientReturns("getAllVideos")
    /\ loc' = [loc EXCEPT !["client"].ret = DbGetAll(videos)]
    /\ UNCHANGED <<videos, lastStored, overwrote>>

deleteVideo ==
    /\ ClientReturns("deleteVideo")
    /\ videos' = DbDelete(videos, loc["client"].arg)
    /\ NoteDelete(loc["client"].arg)
    /\ loc' = [loc EXCEPT !["client"].ret = Undefined]

\* Date.now() moves on by one day while nothing is in flight.
Quiescent == \A p \in DOMAIN pc : pc[p] \in {"idle", "done"}
TimePasses ==
    /\ Quiescent
    /\ now < MaxNowSteps * NowStep
    /\ now' = now + NowStep
    /\ UNCHANGED <<db, openCalls, videos, lastStored, overwrote, txq, pc, svc, loc, sweepLog>>
    /\ ServiceFrame

\* ======================================================================
\* The controller with its store (part_000): the mount effect,
\* handleGetFormats and handleDeleteVideo, each suspended at its awaits.
\* The IndexedDB requests and the service's own code are taken not to throw.
\* At most one handleGetFormats and one handleDeleteVideo are in flight.
\* ======================================================================

Format(id, audio) == [format_id |-> id, has_audio |-> audio]

\* The `formats` lists the /formats endpoint answers with.
FormatLists ==
    { <<Format("a", FALSE), Format("b", TRUE), Format("c", TRUE)>>,
      <<Format("a", FALSE)>> }

\* await fetch('/formats'): not ok, or the JSON {title, duration, formats}.
FormatsResponses(u) ==
    {[ok |-> FALSE]} \cup
    { [ok |-> TRUE, title |-> TitleOf(u), duration |-> DurationOf(u), formats |-> fl]
      : fl \in FormatLists }

\* data.formats.find(format => format.has_audio)
RECURSIVE Find(_)
Find(formats) ==
    IF formats = <<>> THEN Undefined
    ELSE IF Head(formats).has_audio THEN Head(formats)
         ELSE Find(Tail(formats))

previewFormat_head(formats) == Head(formats)
previewFormat(formats) == Find(formats)

\* URL.createObjectURL(blob)
createObjectURL(blob) == IF blob.of = "u1" THEN "blob:u1" ELSE "blob:u2"

\* What `await videoStorage.generateThumbnails(videoBlob)` ends in (SpecThumb):
\* the DefaultNumThumbnails images, or a rejection (two of its four messages).
ThumbnailOutcomes(blob) ==
    {[state |-> "resolved", value |-> ThumbnailsOf(DurationOf(blob.of), DefaultNumThumbnails)]}
    \cup { [state |-> "rejected", error |-> e]
           : e \in {"Seek timeout", "Thumbnail generation timed out"} }

\* The locals and the closure of one handleGetFormats call.
GetFormatsLocals(u) ==
    [url |-> u, data |-> Undefined, downloadRequest |-> Undefined, videoBlob |-> Undefined,
     newThumbnails |-> Undefined, newStoredVideo |-> Undefined]

\* setVideoInfo(null); setPreviewUrl(''): the <video> element unmounts.
ResetVideo ==
    /\ videoInfo' = Null
    /\ previewUrl' = NoPreview
    /\ currentTime' = 0
    /\ videoLoaded' = FALSE
KeepVideo == UNCHANGED <<videoInfo, previewUrl, currentTime, videoLoaded>>

\* setPreviewUrl(objectUrl): the <video> element (re)mounts on a new src.
ShowPreview(objectUrl) ==
    /\ previewUrl' = objectUrl
    /\ currentTime' = 0
    /\ videoLoaded' = FALSE

\* setVideoInfo({title, duration, formats: []}) of a record found in the store.
CachedVideoInfo_withFormats(existingVideo) ==
    [title |-> existingVideo.title, duration |-> existingVideo.duration,
     formats |-> <<Format("b", TRUE)>>]
CachedVideoInfo(existingVideo) ==
    [title |-> existingVideo.title, duration |-> existingVideo.duration, formats |-> <<>>]

\* A step that touches neither the database nor the service.
NoService == UNCHANGED <<storeVars, svc, sweepLog>>

\* catch (err) { setError(err.message) } finally { setLoading(false) }
Catch_noMessage(p, message) ==
    /\ error' = error
    /\ loading' = FALSE
    /\ pc' = [pc EXCEPT ![p] = "idle"]
    /\ loc' = [loc EXCEPT ![p] = NoLocals]
Catch_keepLoading(p, message) ==
    /\ error' = message
    /\ loading' = loading
    /\ pc' = [pc EXCEPT ![p] = "idle"]
    /\ loc' = [loc EXCEPT ![p] = NoLocals]
Catch(p, message) ==
    /\ error' = message
    /\ loading' = FALSE
    /\ pc' = [pc EXCEPT ![p] = "idle"]
    /\ loc' = [loc EXCEPT ![p] = NoLocals]

\* onChange of the URL input: setUrl(e.target.value)
setUrl(u) ==
    /\ url # u
    /\ url' = u
    /\ UNCHANGED <<loading, error, selectedFormat, thumbnails, storedVideos>>
    /\ UNCHANGED <<pc, loc>>
    /\ KeepVideo
    /\ NoService
    /\ AppFrame

\* The mount effect's loadStoredVideos: getAllVideos() returns.
loadStoredVideos ==
    /\ pc["mount"] = "getAll"
    /\ TxnTurn("mount")
    /\ storedVideos' = DbGetAll(videos)
    /\ pc' = [pc EXCEPT !["mount"] = "done"]
    /\ TxnDone("mount")
    /\ NoteOther
    /\ UNCHANGED <<url, loading, error, selectedFormat, thumbnails, loc>>
    /\ UNCHANGED <<db, openCalls, videos, now, lastStored, overwrote>>
    /\ KeepVideo
    /\ AppFrame

\* The form is submitted (the button is disabled while loading, the input is
\* `required`): the state is reset and getVideo(url) is awaited.
handleGetFormats ==
    /\ ~loading
    /\ url # ""
    /\ pc["submit"] = "idle"
    /\ loading' = TRUE
    /\ error' = ""
    /\ ResetVideo
    /\ thumbnails' = <<>>
    /\ selectedFormat' = ""
    /\ pc' = [pc EXCEPT !["submit"] = "getVideo"]
    /\ loc' = [loc EXCEPT !["submit"] = GetFormatsLocals(url)]
    /\ CallService("submit")
    /\ UNCHANGED <<url, storedVideos, db, videos, now, lastStored, overwrote, sweepLog>>
    /\ AppFrame

\* getVideo(url) returns.  A record: it is shown and the handler returns
\* (finally: setLoading(false)).  None: POST /formats is awaited.
handleGetFormatsGotVideo ==
    /\ pc["submit"] = "getVideo"
    /\ TxnTurn("submit")
    /\ TxnDone("submit")
    /\ NoteOther
    /\ LET existingVideo == DbGet(videos, loc["submit"].url) IN
       IF existingVideo # Undefined
       THEN /\ thumbnails' = existingVideo.thumbnails
            /\ videoInfo' = CachedVideoInfo(existingVideo)
            /\ ShowPreview(createObjectURL(existingVideo.blob))
            /\ loading' = FALSE
            /\ pc' = [pc EXCEPT !["submit"] = "idle"]
            /\ loc' = [loc EXCEPT !["submit"] = NoLocals]
       ELSE /\ pc' = [pc EXCEPT !["submit"] = "formats"]
            /\ KeepVideo
            /\ UNCHANGED <<thumbnails, loading, loc>>
    /\ UNCHANGED <<url, error, selectedFormat, storedVideos>>
    /\ UNCHANGED <<db, openCalls, videos, now, lastStored, overwrote>>
    /\ AppFrame

\* The /formats response arrives.  Not ok, or no format with audio: throw.
\* Otherwise setVideoInfo, setSelectedFormat(formats[0]) and POST /download
\* of {url, format_id: previewFormat.format_id} is awaited.
handleGetFormatsFormats(data) ==
    /\ pc["submit"] = "formats"
    /\ data \in FormatsResponses(loc["submit"].url)
    /\ IF ~data.ok
       THEN /\ Catch("submit", "Failed to get video formats")
            /\ KeepVideo
            /\ UNCHANGED selectedFormat
       ELSE IF previewFormat(data.formats) = Undefined
       THEN /\ Catch("submit", "No suitable preview format found")
            /\ KeepVideo
            /\ UNCHANGED selectedFormat
       ELSE /\ videoInfo' = [title |-> data.title, duration |-> data.duration,
                             formats |-> data.formats]
            /\ UNCHANGED <<previewUrl, currentTime, videoLoaded>>
            /\ selectedFormat' = data.formats[1].format_id
            /\ loc' = [loc EXCEPT !["submit"].data = data,
                                  !["submit"].downloadRequest =
                                      [url |-> loc["submit"].url,
                                       format_id |-> previewFormat(data.formats).format_id]]
            /\ pc' = [pc EXCEPT !["submit"] = "download"]
            /\ UNCHANGED <<error, loading>>
    /\ UNCHANGED <<url, thumbnails, storedVideos>>
    /\ NoService
    /\ AppFrame

\* The /download response arrives.  Not ok: throw.  Otherwise the blob of the
\* requested format is read and generateThumbnails(videoBlob) is awaited.
handleGetFormatsDownload(ok) ==
    /\ pc["submit"] = "download"
    /\ IF ~ok
       THEN /\ Catch("submit", "Failed to get video preview")
       ELSE /\ loc' = [loc EXCEPT !["submit"].videoBlob =
                           Blob(loc["submit"].downloadRequest.url,
                                loc["submit"].downloadRequest.format_id)]
            /\ pc' = [pc EXCEPT !["submit"] = "thumbnails"]
            /\ UNCHANGED <<error, loading>>
    /\ UNCHANGED <<url, selectedFormat, thumbnails, storedVideos>>
    /\ KeepVideo
    /\ NoService
    /\ AppFrame

\* Where the handler goes once generateThumbnails has settled.
AfterThumbnails_storeAnyway(outcome) == "store"
AfterThumbnails(outcome) == IF outcome.state = "resolved" THEN "store" ELSE "catch"

\* generateThumbnails settles.  Rejected: the await throws.  Resolved:
\* setThumbnails, setPreviewUrl, the record is built with Date.now() and
\* storeVideo(newStoredVideo) is awaited.
handleGetFormatsThumbnails(outcome) ==
    /\ pc["submit"] = "thumbnails"
    /\ outcome \in ThumbnailOutcomes(loc["submit"].videoBlob)
    /\ IF AfterThumbnails(outcome) = "catch"
       THEN /\ Catch("submit", outcome.error)
            /\ KeepVideo
            /\ UNCHANGED thumbnails
            /\ NoService
       ELSE LET l == loc["submit"]
                newThumbnails == IF outcome.state = "resolved" THEN outcome.value ELSE <<>>
                newStoredVideo == [url |-> l.url, title |-> l.data.title, blob |-> l.videoBlob,
                                   timestamp |-> now, duration |-> l.data.duration,
                                   thumbnails |-> newThumbnails]
            IN /\ thumbnails' = newThumbnails
               /\ ShowPreview(createObjectURL(l.videoBlob))
               /\ UNCHANGED videoInfo
               /\ loc' = [loc EXCEPT !["submit"].newThumbnails = newThumbnails,
                                     !["submit"].newStoredVideo = newStoredVideo]
               /\ pc' = [pc EXCEPT !["submit"] = "store"]
               /\ CallService("submit")
               /\ UNCHANGED <<error, loading>>
               /\ UNCHANGED <<db, videos, now, lastStored, overwrote, sweepLog>>
    /\ UNCHANGED <<url, selectedFormat, storedVideos>>
    /\ AppFrame

\* storeVideo(newStoredVideo) returns; getAllVideos() is awaited.
handleGetFormatsStored ==
    /\ pc["submit"] = "store"
    /\ TxnTurn("submit")
    /\ TxnThenTxn("submit")
    /\ videos' = DbPut(videos, loc["submit"].newStoredVideo)
    /\ NoteStore(loc["submit"].newStoredVideo)
    /\ NoteOther
    /\ pc' = [pc EXCEPT !["submit"] = "getAll"]
    /\ UNCHANGED <<db, openCalls, now, loc>>
    /\ UNCHANGED appVars
    /\ KeepVideo
    /\ AppFrame

\* getAllVideos() returns: setStoredVideos; finally: setLoading(false).
handleGetFormatsGotAll ==
    /\ pc["submit"] = "getAll"
    /\ TxnTurn("submit")
    /\ TxnDone("submit")
    /\ NoteOther
    /\ storedVideos' = DbGetAll(videos)
    /\ loading' = FALSE
    /\ pc' = [pc EXCEPT !["submit"] = "idle"]
    /\ loc' = [loc EXCEPT !["submit"] = NoLocals]
    /\ UNCHANGED <<url, error, selectedFormat, thumbnails>>
    /\ UNCHANGED <<db, openCalls, videos, now, lastStored, overwrote>>
    /\ KeepVideo
    /\ AppFrame

\* The Delete button of a listed record: deleteVideo(videoUrl) is awaited.
handleDeleteVideo(videoUrl) ==
    /\ \E i \in 1..Len(storedVideos) : storedVideos[i].url = videoUrl
    /\ pc["delete"] = "idle"
    /\ pc' = [pc EXCEPT !["delete"] = "delete"]
    /\ loc' = [loc EXCEPT !["delete"] = [videoUrl |-> videoUrl, url |-> url]]
    /\ CallService("delete")
    /\ UNCHANGED <<db, videos, now, lastStored, overwrote, sweepLog>>
    /\ UNCHANGED appVars
    /\ KeepVideo
    /\ AppFrame

\* deleteVideo(videoUrl) returns; getAllVideos() is awaited.
handleDeleteVideoDeleted ==
    /\ pc["delete"] = "delete"
    /\ TxnTurn("delete")
    /\ TxnThenTxn("delete")
    /\ videos' = DbDelete(videos, loc["delete"].videoUrl)
    /\ NoteDelete(loc["delete"].videoUrl)
    /\ NoteOther
    /\ pc' = [pc EXCEPT !["delete"] = "getAll"]
    /\ UNCHANGED <<db, openCalls, now, loc>>
    /\ UNCHANGED appVars
    /\ KeepVideo
    /\ AppFrame

\* getAllVideos() returns: setStoredVideos; if (url === videoUrl)
\* { setThumbnails([]); setVideoInfo(null) }.
handleDeleteVideoGotAll ==
    /\ pc["delete"] = "getAll"
    /\ TxnTurn("delete")
    /\ TxnDone("delete")
    /\ NoteOther
    /\ storedVideos' = DbGetAll(videos)
    /\ IF loc["delete"].url = loc["delete"].videoUrl
       THEN thumbnails' = <<>> /\ videoInfo' = Null
       ELSE UNCHANGED <<thumbnails, videoInfo>>
    /\ UNCHANGED <<previewUrl, currentTime, videoLoaded>>
    /\ pc' = [pc EXCEPT !["delete"] = "idle"]
    /\ loc' = [loc EXCEPT !["delete"] = NoLocals]
    /\ UNCHANGED <<url, loading, error, selectedFormat>>
    /\ UNCHANGED <<db, openCalls, videos, now, lastStored, overwrote>>
    /\ AppFrame

\* ======================================================================
\* The clip download of part_000: the disclaimer checkbox, the format
\* select, handleDownload and handleCreateClip.
\* ======================================================================

\* <input type="checkbox" onChange={(e) => setAcceptedDisclaimer(e.target.checked)}>
setAcceptedDisclaimer(checked) ==
    /\ acceptedDisclaimer # checked
    /\ acceptedDisclaimer' = checked
    /\ UNCHANGED <<rangeVars, thumbVars, storeVars, procVars, appVars>>

\* The options of the format <select>, rendered under `videoInfo && (...)`.
FormatOptions ==
    IF videoInfo = Null THEN {}
    ELSE {""} \cup {videoInfo.formats[k].format_id : k \in 1..Len(videoInfo.formats)}

\* <select onChange={(e) => setSelectedFormat(e.target.value)}>
setSelectedFormat(value) ==
    /\ value \in FormatOptions
    /\ selectedFormat # value
    /\ selectedFormat' = value
    /\ UNCHANGED <<url, loading, error, thumbnails, storedVideos>>
    /\ UNCHANGED <<pc, loc>>
    /\ KeepVideo
    /\ NoService
    /\ AppFrame

\* The Download Clip button is rendered under videoInfo, enabled unless
\* loading || !selectedFormat || !acceptedDisclaimer, and handleDownload
\* returns at once if (!selectedFormat || !acceptedDisclaimer || !videoInfo).
CanDownload_noDisclaimer == videoInfo # Null /\ ~loading /\ selectedFormat # ""
CanDownload == videoInfo # Null /\ ~loading /\ selectedFormat # "" /\ acceptedDisclaimer

\* The closure of one handleDownload call.
DownloadLocals ==
    [url |-> url, startTime |-> startTime, endTime |-> endTime,
     selectedFormat |-> selectedFormat, acceptedDisclaimer |-> acceptedDisclaimer,
     formData |-> Undefined]

\* The button is clicked: setLoading(true); setError(''); getVideo(url) is awaited.
handleDownload ==
    /\ CanDownload
    /\ pc["download"] = "idle"
    /\ loading' = TRUE
    /\ error' = ""
    /\ pc' = [pc EXCEPT !["download"] = "getVideo"]
    /\ loc' = [loc EXCEPT !["download"] = DownloadLocals]
    /\ CallService("download")
    /\ UNCHANGED <<url, selectedFormat, thumbnails, storedVideos>>
    /\ UNCHANGED <<db, videos, now, lastStored, overwrote, sweepLog>>
    /\ KeepVideo
    /\ AppFrame

\* getVideo(url) returns.  No record: throw.  A record: handleCreateClip
\* posts {video: blob, start_time, end_time} to /process-clip and awaits it.
handleDownloadGotVideo ==
    /\ pc["download"] = "getVideo"
    /\ TxnTurn("download")
    /\ TxnDone("download")
    /\ NoteOther
    /\ LET existingVideo == DbGet(videos, loc["download"].url) IN
       IF existingVideo = Undefined
       THEN Catch("download", "Video not found in storage")
       ELSE /\ pc' = [pc EXCEPT !["download"] = "clip"]
            /\ loc' = [loc EXCEPT !["download"].formData =
                           [video |-> existingVideo.blob,
                            start_time |-> loc["download"].startTime,
                            end_time |-> loc["download"].endTime]]
            /\ UNCHANGED <<error, loading>>
    /\ UNCHANGED <<url, selectedFormat, thumbnails, storedVideos>>
    /\ UNCHANGED <<db, openCalls, videos, now, lastStored, overwrote>>
    /\ KeepVideo
    /\ AppFrame

\* The /process-clip response arrives.  Not ok: handleCreateClip throws and
\* handleDownload catches.  Ok: the clip is saved through a temporary <a>;
\* finally: setLoading(false).
handleCreateClip(ok) ==
    /\ pc["download"] = "clip"
    /\ IF ~ok
       THEN Catch("download", "Failed to create clip: Failed to process clip")
       ELSE /\ loading' = FALSE
            /\ pc' = [pc EXCEPT !["download"] = "idle"]
            /\ loc' = [loc EXCEPT !["download"] = NoLocals]
            /\ UNCHANGED error
    /\ UNCHANGED <<url, selectedFormat, thumbnails, storedVideos>>
    /\ KeepVideo
    /\ NoService
    /\ AppFrame

\* ======================================================================
\* handleUseStoredVideo of part_000: the Use button of a listed record.
\* At most one call is in flight.
\* ======================================================================

\* data.formats.filter(format => format.has_audio)
formatsWithAudio(formats) == SelectSeq(formats, LAMBDA format : format.has_audio)

\* The Use button is clicked: setUrl(videoUrl), the state is reset and
\* getVideo(videoUrl) is awaited.
handleUseStoredVideo(videoUrl) ==
    /\ \E i \in 1..Len(storedVideos) : storedVideos[i].url = videoUrl
    /\ pc["use"] = "idle"
    /\ url' = videoUrl
    /\ loading' = TRUE
    /\ error' = ""
    /\ ResetVideo
    /\ thumbnails' = <<>>
    /\ selectedFormat' = ""
    /\ pc' = [pc EXCEPT !["use"] = "getVideo"]
    /\ loc' = [loc EXCEPT !["use"] = [videoUrl |-> videoUrl]]
    /\ CallService("use")
    /\ UNCHANGED <<storedVideos, db, videos, now, lastStored, overwrote, sweepLog>>
    /\ AppFrame

\* getVideo(videoUrl) returns.  A record: it is shown; finally:
\* setLoading(false).  None: POST /formats is awaited.
handleUseStoredVideoGotVideo ==
    /\ pc["use"] = "getVideo"
    /\ TxnTurn("use")
    /\ TxnDone("use")
    /\ NoteOther
    /\ LET existingVideo == DbGet(videos, loc["use"].videoUrl) IN
       IF existingVideo # Undefined
       THEN /\ thumbnails' = existingVideo.thumbnails
            /\ videoInfo' = CachedVideoInfo(existingVideo)
            /\ ShowPreview(createObjectURL(existingVideo.blob))
            /\ loading' = FALSE
            /\ pc' = [pc EXCEPT !["use"] = "idle"]
            /\ loc' = [loc EXCEPT !["use"] = NoLocals]
       ELSE /\ pc' = [pc EXCEPT !["use"] = "formats"]
            /\ KeepVideo
            /\ UNCHANGED <<thumbnails, loading, loc>>
    /\ UNCHANGED <<url, error, selectedFormat, storedVideos>>
    /\ UNCHANGED <<db, openCalls, videos, now, lastStored, overwrote>>
    /\ AppFrame

\* The /formats response arrives.  Not ok: throw.  Otherwise setVideoInfo
\* with the formats that have audio and setSelectedFormat of the first of
\* them, if any; finally: setLoading(false).
handleUseStoredVideoFormats(data) ==
    /\ pc["use"] = "formats"
    /\ data \in FormatsResponses(loc["use"].videoUrl)
    /\ IF ~data.ok
       THEN /\ Catch("use", "Failed to get video formats")
            /\ KeepVideo
            /\ UNCHANGED selectedFormat
       ELSE /\ videoInfo' = [title |-> data.title, duration |-> data.duration,
                             formats |-> formatsWithAudio(data.formats)]
            /\ UNCHANGED <<previewUrl, currentTime, videoLoaded>>
            /\ selectedFormat' = IF formatsWithAudio(data.formats) # <<>>
                                 THEN formatsWithAudio(data.formats)[1].format_id
                                 ELSE selectedFormat
            /\ loading' = FALSE
            /\ pc' = [pc EXCEPT !["use"] = "idle"]
            /\ loc' = [loc EXCEPT !["use"] = NoLocals]
            /\ UNCHANGED error
    /\ UNCHANGED <<url, thumbnails, storedVideos>>
    /\ NoService
    /\ AppFrame

\* ======================================================================
\* Initial states and specifications
\* ======================================================================

\* The controller right after the first render (useState initial values).
TimelineInit ==
    /\ videoInfo = Null
    /\ previewUrl = NoPreview
    /\ startTime = Sec(DefaultStartSec)
    /\ endTime = Sec(DefaultEndSec)
    /\ isDragging = "null"
    /\ currentTime = 0
    /\ videoLoaded = FALSE

\* generateThumbnails right after the promise executor ran: video.src is an
\* object URL, the three handlers are set, the 30 s timer is running.
ThumbCalled(n, d) ==
    /\ numThumbnails = n
    /\ vDuration = d
    /\ vCurrentTime = <<0, 1>>
    /\ vSeeking = FALSE
    /\ vErrored = FALSE
    /\ gtPc = "start"
    /\ gtI = 0
    /\ gtThumbnails = <<>>
    /\ gtPromise = PendingPromise
    /\ gtObjectUrl = "live"
    /\ gtGenTimer = "pending"
    /\ gtSeekTimer = [state |-> "none", due |-> 0]
    /\ clock = 0

\* No call of generateThumbnails is modelled.
ThumbNotCalled ==
    /\ numThumbnails = 0
    /\ vDuration = 0
    /\ vCurrentTime = <<0, 1>>
    /\ vSeeking = FALSE
    /\ vErrored = FALSE
    /\ gtPc = "done"
    /\ gtI = 0
    /\ gtThumbnails = <<>>
    /\ gtPromise = PendingPromise
    /\ gtObjectUrl = "none"
    /\ gtGenTimer = "none"
    /\ gtSeekTimer = [state |-> "none", due |-> 0]
    /\ clock = 0


\* A fresh database and no activity.
StoreInit ==
    /\ db = "null"
    /\ openCalls = 0
    /\ videos = <<>>
    /\ now = 0
    /\ lastStored = [u \in Urls |-> Undefined]
    /\ overwrote = FALSE
    /\ txq = <<>>
    /\ pc = [p \in Procs |-> "idle"]
    /\ svc = [p \in Procs |-> "none"]
    /\ loc = [p \in Procs |-> NoLocals]
    /\ sweepLog = [state |-> "none"]

AppStateInit ==
    /\ url = ""
    /\ loading = FALSE
    /\ error = ""
    /\ selectedFormat = ""
    /\ thumbnails = <<>>
    /\ storedVideos = <<>>
    /\ acceptedDisclaimer = FALSE

RangeInit ==
    /\ TimelineInit
    /\ ThumbNotCalled
    /\ StoreInit
    /\ AppStateInit

RangeNext ==
    \/ \E type \in {"start", "end"} : handleMouseDown(type)
    \/ handleMouseUp
    \/ \E time \in 0..Sec(MaxDurSec) : handleMouseMove(time)
    \/ \E time \in 0..Sec(MaxDurSec) : handleTimelineClick(time)
    \/ onLoadedData
    \/ onVideoError
    \/ RangeResetVideo
    \/ \E d \in Durations : RangeSetVideoInfo(d)
    \/ RangeSetPreviewUrl

SpecRange == RangeInit /\ [][RangeNext]_vars

ThumbInit ==
    /\ TimelineInit
    /\ StoreInit
    /\ AppStateInit
    /\ \E n \in 0..MaxCount : \E d \in 1..MaxThumbDur : ThumbCalled(n, d)

ThumbNext ==
    \/ onloadedmetadata
    \/ onloadeddata
    \/ onseeked
    \/ onerror
    \/ onSeekTimeout
    \/ onGenTimeout
    \/ Tick

SpecThumb == ThumbInit /\ [][ThumbNext]_vars

ServiceInit ==
    /\ TimelineInit
    /\ ThumbNotCalled
    /\ StoreInit
    /\ AppStateInit

ServiceNext ==
    \/ \E video \in VideoInputs : ClientCall("storeVideo", video)
    \/ \E u \in Urls : ClientCall("getVideo", u)
    \/ ClientCall("getAllVideos", Undefined)
    \/ \E u \in Urls : ClientCall("deleteVideo", u)
    \/ \E p \in {"client", "sweep"} : initialize(p)
    \/ storeVideo
    \/ getVideo
    \/ getAllVideos
    \/ deleteVideo
    \/ cleanup
    \/ cleanupGotAll
    \/ cleanupDeleted
    \/ TimePasses

SpecService == ServiceInit /\ [][ServiceNext]_vars

\* The controller after its first render and mount effect: loadStoredVideos
\* has called getAllVideos(), which awaits initialize().
MountedInit ==
    /\ db = "null"
    /\ openCalls = 1
    /\ videos = <<>>
    /\ now = 0
    /\ lastStored = [u \in Urls |-> Undefined]
    /\ overwrote = FALSE
    /\ txq = <<>>
    /\ pc = [p \in Procs |-> IF p = "mount" THEN "getAll" ELSE "idle"]
    /\ svc = [p \in Procs |-> IF p = "mount" THEN "init" ELSE "none"]
    /\ loc = [p \in Procs |-> NoLocals]
    /\ sweepLog = [state |-> "none"]

Init ==
    /\ TimelineInit
    /\ ThumbNotCalled
    /\ MountedInit
    /\ AppStateInit

Next ==
    \/ \E u \in Urls : setUrl(u)
    \/ loadStoredVideos
    \/ handleGetFormats
    \/ handleGetFormatsGotVideo
    \/ \E u \in Urls : \E data \in FormatsResponses(u) : handleGetFormatsFormats(data)
    \/ \E ok \in BOOLEAN : handleGetFormatsDownload(ok)
    \/ \E u \in Urls : \E outcome \in ThumbnailOutcomes(Blob(u, "b")) :
           handleGetFormatsThumbnails(outcome)
    \/ handleGetFormatsStored
    \/ handleGetFormatsGotAll
    \/ \E videoUrl \in Urls : handleDeleteVideo(videoUrl)
    \/ handleDeleteVideoDeleted
    \/ handleDeleteVideoGotAll
    \/ \E p \in {"mount", "submit", "delete", "sweep"} : initialize(p)
    \/ cleanup
    \/ cleanupGotAll
    \/ cleanupDeleted
    \/ TimePasses

Spec == Init /\ [][Next]_vars

ClipNext ==
    \/ \E u \in Urls : setUrl(u)
    \/ loadStoredVideos
    \/ handleGetFormats
    \/ handleGetFormatsGotVideo
    \/ \E u \in Urls : \E data \in FormatsResponses(u) : handleGetFormatsFormats(data)
    \/ \E ok \in BOOLEAN : handleGetFormatsDownload(ok)
    \/ \E u \in Urls : \E outcome \in ThumbnailOutcomes(Blob(u, "b")) :
           handleGetFormatsThumbnails(outcome)
    \/ handleGetFormatsStored
    \/ handleGetFormatsGotAll
    \/ \E p \in {"mount", "submit", "download"} : initialize(p)
    \/ \E checked \in BOOLEAN : setAcceptedDisclaimer(checked)
    \/ \E value \in {"", "a", "b", "c"} : setSelectedFormat(value)
    \/ handleDownload
    \/ handleDownloadGotVideo
    \/ \E ok \in BOOLEAN : handleCreateClip(ok)

\* The controller of part_000 with its clip download, without the sweep.
SpecClip == Init /\ [][ClipNext]_vars

UseNext ==
    \/ \E u \in Urls : setUrl(u)
    \/ loadStoredVideos
    \/ handleGetFormats
    \/ handleGetFormatsGotVideo
    \/ \E u \in Urls : \E data \in FormatsResponses(u) : handleGetFormatsFormats(data)
    \/ \E ok \in BOOLEAN : handleGetFormatsDownload(ok)
    \/ \E u \in Urls : \E outcome \in ThumbnailOutcomes(Blob(u, "b")) :
           handleGetFormatsThumbnails(outcome)
    \/ handleGetFormatsStored
    \/ handleGetFormatsGotAll
    \/ \E videoUrl \in Urls : handleDeleteVideo(videoUrl)
    \/ handleDeleteVideoDeleted
    \/ handleDeleteVideoGotAll
    \/ \E videoUrl \in Urls : handleUseStoredVideo(videoUrl)
    \/ handleUseStoredVideoGotVideo
    \/ \E u \in Urls : \E data \in FormatsResponses(u) : handleUseStoredVideoFormats(data)
    \/ \E p \in {"mount", "submit", "delete", "use"} : initialize(p)

\* The controller of part_000 with its stored-video list, without the sweep
\* and the clip download.
SpecUse == Init /\ [][UseNext]_vars

\* ======================================================================
\* Claims
\* ======================================================================

\* ----------------------------------------------------------------------
\* C1
\* ----------------------------------------------------------------------
RangeMutation ==
    \/ \E time \in 0..Sec(MaxDurSec) : handleMouseMove(time)
    \/ \E time \in 0..Sec(MaxDurSec) : handleTimelineClick(time)

RangeOk(s, e, d) == e - s >= Sec(MinSpanSec) /\ 0 <= s /\ s <= d /\ 0 <= e /\ e <= d

C2_SweepExpires ==
    (pc["sweep"] = "idle" /\ sweepLog.state = "found") =>
        LET l == sweepLog IN
        /\ \A i \in 1..Len(l.videos) :
               IF l.now - l.videos[i].timestamp > dayInMs
               THEN DbGet(videos, l.videos[i].url) = Undefined
               ELSE DbGet(videos, l.videos[i].url) = l.videos[i]
        /\ \A j \in 1..Len(videos) : \E i \in 1..Len(l.videos) : videos[j] = l.videos[i]

\* A completed, undisturbed sweep that found one record older than 24 hours
\* and one exactly 24 hours old, and left only the latter.
C2_Witness ==
    /\ pc["sweep"] = "idle"
    /\ sweepLog.state = "found"
    /\ Len(sweepLog.videos) = 2
    /\ \E i, j \in 1..2 :
           /\ sweepLog.now - sweepLog.videos[i].timestamp > dayInMs
           /\ sweepLog.now - sweepLog.videos[j].timestamp = dayInMs
           /\ videos = <<sweepLog.videos[j]>>

\* C3: the store is a map from url to one record.  In every state getVideo(u)
\* gives the record of the last storeVideo under u, equal in all fields, unless
\* a deleteVideo(u) came later or there was none, and then undefined; a
\* getVideo call returns just that; getAllVideos never holds two records of
\* one url.
C3_StoreIsMap ==
    /\ [](\A u \in Urls : DbGet(videos, u) = lastStored[u])
    /\ [](\A i, j \in 1..Len(DbGetAll(videos)) :
              i # j => DbGetAll(videos)[i].url # DbGetAll(videos)[j].url)
    /\ [][getVideo => loc'["client"].ret = lastStored[loc["client"].arg]]_vars

\* A storeVideo has replaced a different record of the same url while the
\* store holds a record of each url.
C3_Witness ==
    /\ overwrote
    /\ Len(videos) = 2
    /\ \A u \in Urls : lastStored[u] # Undefined

\* ----------------------------------------------------------------------
\* C4, C5, C10: the controller with its store (checked under Spec)
\* ----------------------------------------------------------------------

\* C4: a cleanup() that runs interleaved with the store operations of the
\* submit and delete handlers never removes a record whose timestamp is within
\* 24 hours of the current time: every such record of the store is still
\* there, unchanged, after a deleteVideo of the sweep.
C4_SweepKeepsFresh ==
    [][cleanupDeleted =>
          \A i \in 1..Len(videos) :
              now - videos[i].timestamp <= dayInMs
                  => DbGet(videos', videos[i].url) = videos[i]]_vars

\* A record as a submit builds it when all three of its dependencies succeeded.
CompleteRecord(video) ==
    /\ video.title = TitleOf(video.url)
    /\ video.duration = DurationOf(video.url)
    /\ \E format_id \in {"a", "b", "c"} : video.blob = Blob(video.url, format_id)
    /\ video.thumbnails = ThumbnailsOf(video.duration, DefaultNumThumbnails)

\* A handleGetFormats call ends in its catch block.
SubmitFails == pc["submit"] # "idle" /\ pc'["submit"] = "idle" /\ error' # ""

\* C5: no partial record is persisted.  Every record of the store is complete;
\* a submit that awaits storeVideo has a successful formats response, a
\* downloaded blob and the full thumbnail list behind it; a submit that fails
\* has not called storeVideo and leaves the store as it was.
C5_NoPartialRecord ==
    /\ [](\A i \in 1..Len(videos) : CompleteRecord(videos[i]))
    /\ [](pc["submit"] = "store" =>
              /\ loc["submit"].data.ok
              /\ loc["submit"].videoBlob = Blob(loc["submit"].url, loc["submit"].downloadRequest.format_id)
              /\ Len(loc["submit"].newThumbnails) = DefaultNumThumbnails
              /\ CompleteRecord(loc["submit"].newStoredVideo))
    /\ [][SubmitFails => (loc["submit"].newStoredVideo = Undefined /\ videos' = videos)]_vars

\* A submit has failed in generateThumbnails after an earlier submit stored its
\* record; the store holds just that record.
C5_Witness ==
    /\ pc["submit"] = "idle"
    /\ error = "Seek timeout"
    /\ Len(videos) = 1
    /\ url # videos[1].url
    /\ storedVideos = videos

\* C10: on a submit of url u that misses the cache, the /download request
\* carries u and the format_id of the first format of the response that has
\* audio, and the record passed to storeVideo, and then found in the store
\* under u, has url u, whatever the URL input holds by then.
C10_PreviewOfFirstAudio ==
    /\ [](pc["submit"] \in {"download", "thumbnails", "store", "getAll"} =>
              LET l == loc["submit"] IN
              /\ l.downloadRequest.url = l.url
              /\ \E k \in 1..Len(l.data.formats) :
                     /\ l.data.formats[k].has_audio
                     /\ \A j \in 1..(k - 1) : ~l.data.formats[j].has_audio
                     /\ l.downloadRequest.format_id = l.data.formats[k].format_id)
    /\ [](pc["submit"] \in {"store", "getAll"} => loc["submit"].newStoredVideo.url = loc["submit"].url)
    /\ [][handleGetFormatsStored =>
              /\ DbGet(videos', loc["submit"].url) = loc["submit"].newStoredVideo
              /\ DbGet(videos', loc["submit"].url).url = loc["submit"].url]_vars

\* A submit of u has stored its record, downloaded in format "b" behind an
\* audio-less "a", while the URL input was changed during the submit.
C10_Witness ==
    /\ pc["submit"] = "getAll"
    /\ url # loc["submit"].url
    /\ loc["submit"].data.formats[1] = Format("a", FALSE)
    /\ loc["submit"].downloadRequest.format_id = "b"
    /\ DbGet(videos, loc["submit"].url) = loc["submit"].newStoredVideo

\* ----------------------------------------------------------------------
\* C6 - C9: generateThumbnails (checked under SpecThumb)
\* ----------------------------------------------------------------------

\* C6: when the call resolves, the value holds exactly numThumbnails images,
\* the image at index i (from 0) is the frame at position duration * i /
\* numThumbnails, in increasing i, and the last position is strictly before
\* the duration.
C6_SamplesInOrder ==
    gtPromise.state = "resolved" =>
        /\ Len(gtPromise.value) = numThumbnails
        /\ \A k \in 1..numThumbnails :
               gtPromise.value[k].frameAt = <<vDuration * (k - 1), numThumbnails>>
        /\ numThumbnails > 0 =>
               gtPromise.value[numThumbnails].frameAt[1] < vDuration * numThumbnails

\* A call for at least two images has resolved.
C6_Witness ==
    /\ gtPromise.state = "resolved"
    /\ numThumbnails >= 2
    /\ Len(gtPromise.value) = numThumbnails

\* C7: the call never yields a partial list.  A resolved call holds all
\* numThumbnails images and resolved no later than the 30 s deadline; once a
\* seek timer has fired (a seek took more than 5 s) the call is rejected, with
\* the seek-timeout error unless the 30 s timer had rejected it before; once
\* the 30 s timer has fired the call is rejected unless it had resolved before,
\* however many frames were captured.
C7_NoPartialList ==
    /\ gtPromise.state = "resolved" =>
           /\ Len(gtPromise.value) = numThumbnails
           /\ gtPromise.at <= GenTimeoutMs
           /\ gtSeekTimer.state # "fired"
    /\ gtSeekTimer.state = "fired" =>
           /\ gtPromise.state = "rejected"
           /\ \/ gtPromise.error = "Seek timeout"
              \/ gtPromise.error = "Thumbnail generation timed out" /\ gtGenTimer = "fired"
    /\ gtGenTimer = "fired" =>
           /\ gtPromise.state # "pending"
           /\ gtPromise.state = "rejected" \/ gtPromise.at <= GenTimeoutMs

\* The 30 s timer rejected a call that had captured some frames, but not all.
C7_Witness ==
    /\ gtPromise.state = "rejected"
    /\ gtPromise.error = "Thumbnail generation timed out"
    /\ gtGenTimer = "fired"
    /\ Len(gtThumbnails) >= 1
    /\ Len(gtThumbnails) < numThumbnails

\* C8: once the call has resolved or rejected, on whichever path, its object
\* URL has been revoked.
C8_UrlRevoked ==
    gtPromise.state # "pending" => gtObjectUrl = "revoked"

\* The call failed on a seek timeout after capturing a frame; its URL is revoked.
C8_Witness ==
    /\ gtPromise.state = "rejected"
    /\ gtPromise.error = "Seek timeout"
    /\ Len(gtThumbnails) >= 1
    /\ gtObjectUrl = "revoked"

\* C9: once the call has resolved or rejected, no timer it started is pending.
C9_TimersCleared ==
    gtPromise.state # "pending" =>
        /\ gtGenTimer # "pending"
        /\ gtSeekTimer.state # "pending"


\* ----------------------------------------------------------------------
\* C11: a failed submit (checked under Spec)
\* ----------------------------------------------------------------------

\* A step of handleGetFormats from the await of /formats, of /download or of
\* generateThumbnails that does not go on to the next await.
SubmitStepFails ==
    \/ pc["submit"] = "formats" /\ pc'["submit"] \notin {"formats", "download"}
    \/ pc["submit"] = "download" /\ pc'["submit"] \notin {"download", "thumbnails"}
    \/ pc["submit"] = "thumbnails" /\ pc'["submit"] \notin {"thumbnails", "store"}

\* The submit button and the `required` input let the form be submitted.
SubmitEnabled == ~loading /\ url # "" /\ pc["submit"] = "idle"

\* C11: when the formats query fails, no format has audio, the preview
\* download fails or thumbnail generation fails, the handler ends with a
\* non-empty error message and loading = false, and a new submit is enabled
\* in the state it leaves.
C11_ErrorThenSubmit ==
    /\ [][SubmitStepFails =>
             /\ error' # ""
             /\ loading' = FALSE
             /\ pc'["submit"] = "idle"
             /\ (url' # "" => SubmitEnabled')]_vars
    /\ [](SubmitEnabled => ENABLED handleGetFormats)

\* A submit has failed for want of a format with audio and the form can be
\* submitted again.
C11_Witness ==
    /\ error = "No suitable preview format found"
    /\ SubmitEnabled
    /\ videoInfo = Null

\* ----------------------------------------------------------------------
\* C12, C13: the clip download (checked under SpecClip)
\* ----------------------------------------------------------------------

\* C12: a request to /process-clip is sent only by a handleDownload call at
\* whose start the disclaimer was acknowledged and a non-empty format was
\* selected: the call starts only in such a state, and whenever it awaits
\* getVideo or the clip endpoint its closure holds both.
C12_ClipNeedsConsent ==
    /\ [][handleDownload => (acceptedDisclaimer /\ selectedFormat # "")]_vars
    /\ [](pc["download"] \in {"getVideo", "clip"} =>
              (loc["download"].acceptedDisclaimer /\ loc["download"].selectedFormat # ""))

\* A clip request is in flight; the user has cleared the checkbox since the
\* click.
C12_Witness ==
    /\ pc["download"] = "clip"
    /\ loc["download"].formData # Undefined
    /\ ~acceptedDisclaimer

\* A step of handleDownload / handleCreateClip, and one that ends in the catch
\* block: the record is missing, or the clip endpoint answers not ok.
DownloadStep ==
    \/ handleDownload
    \/ handleDownloadGotVideo
    \/ \E ok \in BOOLEAN : handleCreateClip(ok)
DownloadFails ==
    \/ handleDownloadGotVideo /\ DbGet(videos, loc["download"].url) = Undefined
    \/ handleCreateClip(FALSE)

\* C13: a failed clip download sets an error message and loading = false,
\* and no step of the download changes videoInfo, thumbnails, previewUrl, the
\* clip range, the selected format or the store.
C13_FailedDownloadKeepsReady ==
    /\ [][DownloadFails => (error' # "" /\ loading' = FALSE)]_vars
    /\ [][DownloadStep =>
             UNCHANGED <<videoInfo, thumbnails, previewUrl, startTime, endTime,
                         selectedFormat, videos>>]_vars

\* The clip endpoint has refused a clip of a fetched video: the error is
\* shown and the video, its thumbnails, preview, format and record are there.
C13_Witness ==
    /\ error = "Failed to create clip: Failed to process clip"
    /\ ~loading
    /\ videoInfo # Null
    /\ previewUrl # NoPreview
    /\ Len(thumbnails) = DefaultNumThumbnails
    /\ selectedFormat # ""
    /\ Len(videos) = 1

\* ----------------------------------------------------------------------
\* C14: a record found in the store (checked under SpecUse)
\* ----------------------------------------------------------------------

\* The state in which handler p has shown the stored record r and returned
\* without a request to the remote service.
ShowsCached(p, r) ==
    /\ videoInfo' = [title |-> r.title, duration |-> r.duration, formats |-> <<>>]
    /\ thumbnails' = r.thumbnails
    /\ previewUrl' = createObjectURL(r.blob)
    /\ loading' = FALSE
    /\ pc'[p] = "idle"

\* C14: when the store holds a record for the url at the getVideo of a submit
\* or of a Use click, the handler shows that record (title, duration,
\* thumbnails, blob) with videoInfo.formats empty and returns with loading
\* false, never awaiting /formats or /download.
C14_CacheHitIsLocal ==
    /\ [][(handleGetFormatsGotVideo /\ DbGet(videos, loc["submit"].url) # Undefined)
             => ShowsCached("submit", DbGet(videos, loc["submit"].url))]_vars
    /\ [][(handleUseStoredVideoGotVideo /\ DbGet(videos, loc["use"].videoUrl) # Undefined)
             => ShowsCached("use", DbGet(videos, loc["use"].videoUrl))]_vars

\* A Use click has shown a stored record while a submit of the other url,
\* which missed the store, still awaits /formats.
C14_Witness ==
    /\ pc["submit"] = "formats"
    /\ pc["use"] = "idle"
    /\ videoInfo # Null
    /\ videoInfo.formats = <<>>
    /\ previewUrl = createObjectURL(Blob(url, "b"))
    /\ Len(thumbnails) = DefaultNumThumbnails
    /\ DbGet(videos, url) # Undefined
    /\ ~loading

\* ----------------------------------------------------------------------
\* C15 - C17, C20: the timeline handlers (checked under SpecRange)
\* ----------------------------------------------------------------------

\* C15: a timeline click at time t moves the edge nearer to t by absolute
\* distance and leaves the other edge as it was; at equal distance the start
\* edge is the one moved.
C15_ClickMovesNearerEdge ==
    [][\A time \in 0..Sec(MaxDurSec) :
          handleTimelineClick(time) =>
              IF MathAbs(time - startTime) <= MathAbs(time - endTime)
              THEN endTime' = endTime
              ELSE startTime' = startTime]_vars

\* The edge a range mutation at `time` sets: the dragged handle, or for a
\* click the edge the handler chooses.
SetsStart(time) ==
    \/ handleMouseMove(time) /\ isDragging = "start"
    \/ handleTimelineClick(time) /\ MathAbs(time - startTime) < MathAbs(time - endTime)
SetsEnd(time) ==
    \/ handleMouseMove(time) /\ isDragging = "end"
    \/ handleTimelineClick(time) /\ ~(MathAbs(time - startTime) < MathAbs(time - endTime))

\* C16: when a drag or click asks for a time less than 1 second from the
\* other edge, the edge being set takes the requested time and the other edge
\* is pushed so that end - start >= 1 second.
C16_PushesOtherEdge ==
    [][\A time \in 0..Sec(MaxDurSec) :
          /\ (SetsStart(time) /\ time > endTime - Sec(MinSpanSec))
                 => (startTime' = time /\ endTime' - startTime' >= Sec(MinSpanSec))
          /\ (SetsEnd(time) /\ time < startTime + Sec(MinSpanSec))
                 => (endTime' = time /\ endTime' - startTime' >= Sec(MinSpanSec))]_vars

\* C17: after a range mutation made while the <video> element exists, the
\* playback position is the new value of the edge that was set.
C17_PlaybackAtSetEdge ==
    [][\A time \in 0..Sec(MaxDurSec) :
          /\ (SetsStart(time) /\ VideoRefCurrent) => currentTime' = startTime'
          /\ (SetsEnd(time) /\ VideoRefCurrent) => currentTime' = endTime']_vars

\* C20: whenever a video is loaded (videoInfo is set) a timeline click inside
\* [0, duration] takes effect on the clip range, whether or not the <video>
\* element exists.
C20_ClickWithoutVideo ==
    videoInfo # Null =>
        \A time \in 0..videoInfo.duration : ENABLED handleTimelineClick(time)

\* C18: the database is opened at most once per session: over any
\* interleaving of service calls, initialize() calls openDB at most once.
C18_OpenedOnce == openCalls <= 1

\* C19: deleteVideo(url) of the service on a key that is absent leaves the
\* store as it is; on a key that is present it removes the record of that key
\* and no other record.  Either way the call returns to its caller.
C19_DeleteExact ==
    [][deleteVideo =>
          LET key == loc["client"].arg
              present == DbGet(videos, key) # Undefined
          IN  /\ pc'["client"] = "idle"
              /\ DbGet(videos', key) = Undefined
              /\ \A u \in Urls \ {key} : DbGet(videos', u) = DbGet(videos, u)
              /\ Len(videos') = Len(videos) - (IF present THEN 1 ELSE 0)
              /\ ~present => videos' = videos]_vars
C19_Witness ==
    /\ pc["client"] = "idle"
    /\ loc["client"] # NoLocals
    /\ loc["client"].op = "deleteVideo"
    /\ loc["client"].arg = "u2"
    /\ Len(videos) = 1
    /\ DbGet(videos, "u1") # Undefined
    /\ DbGet(videos, "u1") = lastStored["u1"]

\* C21: in every state in which a video is loaded (videoInfo is set and no
\* handler is in flight) the clip range lies inside the video and spans at
\* least one second: 0 <= start, end <= duration, end - start >= 1 s.
C21_LoadedRangeValid ==
    (videoInfo # Null /\ Quiescent /\ ~loading) =>
        RangeOk(startTime, endTime, videoInfo.duration)

\* What is displayed comes from url u: title and duration are those of u, the
\* thumbnails (if any) are those generated for u, the preview (if any) is an
\* object URL of a blob of u.
Shows(u) ==
    /\ videoInfo.title = TitleOf(u)
    /\ videoInfo.duration = DurationOf(u)
    /\ thumbnails \in {<<>>, ThumbnailsOf(DurationOf(u), DefaultNumThumbnails)}
    /\ previewUrl \in {NoPreview} \cup {createObjectURL(Blob(u, f)) : f \in {"a", "b", "c"}}

\* C22: whenever no handler is in flight and videoInfo is set, the displayed
\* title/duration, thumbnails and preview all belong to one record or fetch:
\* no result of a superseded action is mixed into, or written over, the state
\* the later action produced.
C22_DisplayOfOneAction ==
    (Quiescent /\ ~loading /\ videoInfo # Null) => \E u \in Urls : Shows(u)

\* A controller action that sets the loading flag is still running.
InFlight == pc["submit"] # "idle" \/ pc["use"] # "idle" \/ pc["download"] # "idle"

\* C23: loading is true in every state in which a submit, a use of a stored
\* video or a clip download is in flight, and false only when none is.
C23_LoadingWhileInFlight == loading <=> InFlight

\* Ready: a record is displayed with its preview and nothing is in flight.
Ready == videoInfo # Null /\ previewUrl # NoPreview /\ ~loading /\ ~InFlight

\* C24: from every Ready state the user can start a clip download: a format
\* is selected or the <select> offers one to choose, so that with the
\* disclaimer acknowledged handleDownload passes its guard.
C24_ReadyCanDownload ==
    Ready => (selectedFormat # "" \/ FormatOptions \ {""} # {})

\* C25: the blob a download sends to the clip endpoint is the blob of the
\* record that is displayed (the one whose preview plays and whose title,
\* duration and thumbnails are shown).
C25_ClipOfDisplayed ==
    (pc["download"] = "clip" /\ previewUrl # NoPreview) =>
        /\ createObjectURL(loc["download"].formData.video) = previewUrl
        /\ Shows(loc["download"].formData.video.of)

\* C26: whenever no store-changing action is in flight (no submit, no user
\* delete, no sweep, and the mount's load has finished) the list shown to the
\* user holds exactly the records of the store.
C26_ListIsStore ==
    (/\ pc["mount"] = "done"
     /\ pc["submit"] = "idle"
     /\ pc["delete"] = "idle"
     /\ pc["sweep"] = "idle") => storedVideos = videos

\* C27: once the promise of a generateThumbnails call is rejected, the call
\* starts no further seek and captures no further frame.
C27_StopsOnFailure ==
    [][gtPromise.state = "rejected" =>
          /\ gtThumbnails' = gtThumbnails
          /\ vCurrentTime' = vCurrentTime
          /\ gtI' = gtI]_vars

====
